---- MODULE Spec2Model ----
(***************************************************************************)
(* SandboxManager (backend/src/services/sandbox-manager.ts): the registry  *)
(* of sandbox sessions, the operations dispatched into their containers,   *)
(* and the periodic cleanup of idle sessions.                              *)
(*                                                                         *)
(* The manager runs on one JavaScript event loop.  An action of this model *)
(* is one run-to-completion step: the code between two awaits on a         *)
(* provider (docker) call.  A provider call that has been issued and not   *)
(* yet answered is a record in `calls`; the provider answers in any order, *)
(* with success or failure.                                                *)
(*                                                                         *)
(* Time is counted in units of TimeUnitMs (5 minutes); every duration the  *)
(* model uses is a multiple of it.  The program takes its steps at the     *)
(* clock readings of Instants.  The cleanup interval (1 minute) is shorter *)
(* than a unit, so the interval callback may fire at any step while the    *)
(* interval is set.                                                        *)
(*                                                                         *)
(* Session ids are `sandbox_${Date.now()}_${random}`: the pair of the      *)
(* clock reading and a random draw.  In Spec the draws of Math.random are  *)
(* taken to be pairwise distinct, and the clock reading may repeat; SpecIds *)
(* is createSession and destroySession with draws that may repeat.         *)
(*                                                                         *)
(* SandboxManager is an EventEmitter: emit('error', ...) throws when no    *)
(* listener is registered for 'error'.  The manager is constructed without *)
(* listeners; a caller may register one at any time (OnError).             *)
(*                                                                         *)
(* The provider is docker: a command started by executeCommand runs in the *)
(* container until it ends or the container is removed, and the files of   *)
(* /sandbox are what cat, the here-document write, rm -f and find make of  *)
(* them.  A JavaScript value that may be a number or a string (error.code, *)
(* exitCode) is written as a string; a string of bytes is the sequence of  *)
(* its pieces.                                                             *)
(***************************************************************************)
EXTENDS Integers, Sequences, FiniteSets, TLC

VARIABLES
    now,             \* Date.now(), in time units
    usedRand,        \* number of Math.random draws made by generateSessionId
    nextContainer,   \* number of containers the provider has created
    sessions,        \* keys of this.sessions in insertion order (key k maps
                     \*   to the object objs[k])
    objs,            \* the SandboxSession objects, by sessionId
    containers,      \* container ids that exist in the provider
    calls,           \* in-flight manager calls awaiting the provider
    batches,         \* in-flight cleanupInactiveSessions() / destroy() loops
    timerActive,     \* the setInterval of initializeCleanupTask is set
    errorListener,   \* a listener for the 'error' event is registered
    opsLeft,         \* caller operations still to be issued
    sweepsLeft,      \* sweeps still to be started by the cleanup interval
    emitted,         \* events delivered to listeners, with multiplicity
    stopCount,       \* docker stop invocations per container id
    removeCount,     \* docker rm invocations per container id
    destroyedOk,     \* session ids for which a destroySession call resolved
    destroyFailed,   \* session ids for which a destroySession call rejected
                     \*   after having found the session
    lastLateCall,    \* the last operation issued on a session that was
                     \*   being destroyed or had been destroyed
    lastSweep,       \* summary of the last finished cleanup sweep
    lastShutdown,    \* how the last finished destroy() of the manager ended
    files,           \* the files under /sandbox of each session's container
    abandoned,       \* sessions in whose container a command is still
                     \*   running after its executeCommand call returned
    lastExec,        \* how the last settled executeCommand call ended
    lastFile,        \* how the last settled fileOperation call ended
    lastReply,       \* how the last settled createSession, destroySession,
                     \*   getSessionHealth or updateSessionLimits call ended
    listed           \* the array returned by the last listSessions call

vars == <<now, usedRand, nextContainer, sessions, objs, containers, calls,
          batches, timerActive, errorListener, opsLeft, sweepsLeft, emitted,
          stopCount, removeCount, destroyedOk, destroyFailed, lastLateCall,
          lastSweep, lastShutdown, files, abandoned, lastExec, lastFile, lastReply,
          listed>>

(***************************************************************************)
(* Bounds                                                                  *)
(***************************************************************************)
MaxSessions == 2     \* createSession calls
MaxCalls == 2        \* provider calls in flight at once
MaxOps == 3          \* operations issued by callers
MaxTime == 7         \* last clock reading
MaxSweeps == 2       \* firings of the cleanup interval that select a session

\* A loop in flight always awaits one destroySession call.
MaxBatches == MaxCalls
\* Counters of events and of provider invocations saturate here.
MaxCount == MaxCalls

(***************************************************************************)
(* Program constants                                                       *)
(***************************************************************************)
TimeUnitMs == 5 * 60 * 1000
baseTimeoutMs == (5 * 60 * 1000) \div TimeUnitMs
maxSessionAge == (30 * 60 * 1000) \div TimeUnitMs
baseMemoryLimit == "512m"
baseCpuLimit == "1"

Lowest(S) == CHOOSE x \in S : \A y \in S : x <= y

\* Clock readings at which steps are taken: start, one default timeout
\* later, and from the first reading at which a session that was active at
\* the start has been idle for more than maxSessionAge.
Instants == {0, baseTimeoutMs} \cup ((maxSessionAge + 1)..MaxTime)
NextInstant(t) == Lowest({ u \in Instants : u > t })

Undef == "undefined"

\* Arguments of updateSessionLimits: partial limits; an absent string is
\* Undef, an absent timeoutMs is 0.
LimitsArgs ==
    { [memoryLimit |-> Undef,  cpuLimit |-> Undef, timeoutMs |-> maxSessionAge + 2],
      [memoryLimit |-> "256m", cpuLimit |-> Undef, timeoutMs |-> 0],
      [memoryLimit |-> "256m", cpuLimit |-> "2",   timeoutMs |-> 2] }

\* Paths given to fileOperation, as the segments that follow the leading
\* '/': a file of the sandbox, the sandbox directory itself, a path that
\* climbs out of it, and a directory that does not exist.
FilePath == <<"a.txt">>
RootPath == <<>>
TraversalPath == <<"..", "..", "etc", "passwd">>
MissingDir == <<"nodir">>

\* Arguments of fileOperation; a write comes with a content, with the empty
\* string as its content, and without a content field.
FileOps ==
    { [type |-> "read",   path |-> FilePath, content |-> Undef,  recursive |-> FALSE],
      [type |-> "write",  path |-> FilePath, content |-> "data", recursive |-> FALSE],
      [type |-> "write",  path |-> FilePath, content |-> Undef,  recursive |-> FALSE],
      [type |-> "write",  path |-> FilePath, content |-> "",     recursive |-> FALSE],
      [type |-> "delete", path |-> FilePath, content |-> Undef,  recursive |-> FALSE],
      [type |-> "list",   path |-> RootPath, content |-> Undef,  recursive |-> FALSE],
      [type |-> "list",   path |-> MissingDir, content |-> Undef, recursive |-> FALSE],
      [type |-> "read",   path |-> TraversalPath, content |-> Undef,  recursive |-> FALSE],
      [type |-> "write",  path |-> TraversalPath, content |-> "data", recursive |-> FALSE],
      [type |-> "delete", path |-> TraversalPath, content |-> Undef,  recursive |-> TRUE],
      [type |-> "list",   path |-> TraversalPath, content |-> Undef,  recursive |-> FALSE] }

Min(a, b) == IF a < b THEN a ELSE b

Bump(f, k) == IF k \in DOMAIN f
              THEN [f EXCEPT ![k] = Min(@ + 1, MaxCount)]
              ELSE f @@ (k :> 1)

Count(f, k) == IF k \in DOMAIN f THEN f[k] ELSE 0

(***************************************************************************)
(* Events                                                                  *)
(***************************************************************************)
Event(type, sid, operation) ==
    [type |-> type, sessionId |-> sid, operation |-> operation]

\* this.emit(type, ...) for the event types other than 'error'
emit(em, e) == Bump(em, e)

\* this.emit('error', ...): EventEmitter throws when no listener is
\* registered for 'error'; otherwise the listener receives the event.
emitErrorThrows == ~errorListener
emitError(em, e) == IF errorListener THEN Bump(em, e) ELSE em

(***************************************************************************)
(* Call and batch records                                                  *)
(***************************************************************************)
CallIds == 1..MaxCalls
BatchIds == 1..MaxBatches

NoCall == [op |-> "none"]
NoBatch == [kind |-> "none"]

FreeCall(cs) == { c \in CallIds : cs[c].op = "none" }
FreeBatch == { b \in BatchIds : batches[b].kind = "none" }

\* destroySession calls awaiting docker stop or docker rm for session sid
Destroying(sid) ==
    { c \in CallIds : calls[c].op = "destroy" /\ calls[c].sid = sid }

\* executeCommand calls awaiting the container for session sid
Executing(sid) ==
    { c \in CallIds : calls[c].op = "exec" /\ calls[c].sid = sid }

(***************************************************************************)
(* validateSession, listSessions, generateSessionId                        *)
(***************************************************************************)
Keys(reg) == { reg[i] : i \in 1..Len(reg) }

\* this.sessions.set(sid, session): a Map keeps insertion order
MapSet(reg, sid) == IF sid \in Keys(reg) THEN reg ELSE Append(reg, sid)

\* delete left out: the key stays in the map.  RegistryHoldsActiveOnly
\* must not survive this change.
MapDeleteKept(reg, sid) == reg

\* this.sessions.delete(sid)
MapDelete(reg, sid) == SelectSeq(reg, LAMBDA k : k # sid)

\* validateSession with both checks left out.  ValidationComesFirst must
\* not survive this change.
validateSessionSkipped(sid) == "ok"

\* lines 478-487
validateSession(sid) ==
    IF sid \notin Keys(sessions) THEN "SessionNotFound"
    ELSE IF ~objs[sid].isActive THEN "SessionInactive"
    ELSE "ok"

listSessions == { sid \in Keys(sessions) : objs[sid].isActive }

generateSessionId == <<now, usedRand + 1>>

\* generateSessionId when Math.random draws r, whatever it drew before
Draws == 1..MaxSessions
generateSessionIdDrawn(r) == <<now, r>>

(***************************************************************************)
(* Bookkeeping shared by the operations                                    *)
(***************************************************************************)
Created == DOMAIN objs

Free(cs, c) == [cs EXCEPT ![c] = NoCall]

\* How a session stands with respect to destroySession when a call arrives.
Context(sid) ==
    IF sid \in destroyedOk THEN "destroyed"
    ELSE IF Destroying(sid) # {} THEN "destroying"
    ELSE "live"

\* n tells the calls apart: the number of operations the callers had left.
NoteLate(op, sid, res) ==
    lastLateCall' =
        IF Context(sid) = "live" THEN lastLateCall
        ELSE [op |-> op, sid |-> sid, ctx |-> Context(sid), res |-> res,
              n |-> opsLeft]

EmitAll(em, E) ==
    [k \in DOMAIN em \cup E |->
        IF k \in E THEN Min(Count(em, k) + 1, MaxCount) ELSE em[k]]

\* JavaScript truthiness of an optional string and of an optional number
\* (an absent number is written 0: both are falsy)
Truthy(v) == v # Undef /\ v # ""
TruthyNum(n) == n # 0

(***************************************************************************)
(* createSession                                                           *)
(***************************************************************************)
\* lines 266-268: with the id sid generated, createContainer is awaited;
\* attempts counts the docker run commands issued for the call
CreateStartWith(sid) ==
    /\ opsLeft > 0
    /\ usedRand < MaxSessions
    /\ FreeCall(calls) # {}
    /\ LET c == Lowest(FreeCall(calls)) IN
       calls' = [calls EXCEPT ![c] =
                    [op |-> "create", sid |-> sid,
                     pc |-> "createContainer", parent |-> 0,
                     attempts |-> 1]]
    /\ usedRand' = usedRand + 1
    /\ opsLeft' = opsLeft - 1
    /\ UNCHANGED <<now, nextContainer, sessions, objs, containers, batches,
                   timerActive, errorListener, sweepsLeft, emitted, stopCount,
                   removeCount, destroyedOk, destroyFailed, lastLateCall,
                   lastSweep, lastShutdown>>
    /\ UNCHANGED <<files, abandoned, lastExec, lastFile>>
    /\ UNCHANGED <<lastReply, listed>>

\* lines 266-268: the id is generated, then createContainer is awaited
CreateStart == CreateStartWith(generateSessionId)

\* createSession when the draw of Math.random may repeat an earlier one
CreateStartDraw(r) == CreateStartWith(generateSessionIdDrawn(r))

\* How a createSession call ended.  reissued: the id had been returned by
\* an earlier call; overwrote: the id was a key of the registry.
CreateEnded(sid, outcome, attempts) ==
    [op |-> "createSession", sid |-> sid, outcome |-> outcome,
     attempts |-> attempts, reissued |-> sid \in DOMAIN objs,
     overwrote |-> sid \in Keys(sessions)]

\* The session literal with one handle for every session.
\* HandlesFixedAndDistinct must not survive this change.
NewSessionOneHandle(sid, cid) ==
    [sessionId |-> sid, containerId |-> 1, createdAt |-> now,
     lastActivityAt |-> now, memoryLimit |-> baseMemoryLimit,
     cpuLimit |-> baseCpuLimit, timeoutMs |-> baseTimeoutMs,
     isActive |-> TRUE]

\* lines 270-280
NewSession(sid, cid) ==
    [sessionId |-> sid, containerId |-> cid, createdAt |-> now,
     lastActivityAt |-> now, memoryLimit |-> baseMemoryLimit,
     cpuLimit |-> baseCpuLimit, timeoutMs |-> baseTimeoutMs,
     isActive |-> TRUE]

\* lines 270-285: docker run answered with a container id
CreateOk(c) ==
    /\ calls[c].op = "create"
    /\ LET sid == calls[c].sid
           cid == nextContainer + 1
       IN /\ nextContainer' = cid
          /\ containers' = containers \cup {cid}
          /\ objs' = (sid :> NewSession(sid, cid)) @@ objs
          /\ sessions' = MapSet(sessions, sid)
          /\ emitted' = emit(emitted, Event("session:created", sid, Undef))
          /\ lastReply' = CreateEnded(sid, "ok", calls[c].attempts)
    /\ calls' = Free(calls, c)
    /\ UNCHANGED <<now, usedRand, batches, timerActive, errorListener, sweepsLeft,
                   opsLeft, stopCount, removeCount, destroyedOk,
                   destroyFailed, lastLateCall, lastSweep, lastShutdown>>
    /\ UNCHANGED <<files, abandoned, lastExec, lastFile>>
    /\ UNCHANGED listed

\* createSession announcing the session although createContainer threw.
\* ProvisioningFailureLeavesNothing must not survive this change.
createRejectedAnnounced(em, sid) ==
    emit(em, Event("session:created", sid, Undef))

\* line 268: the await rejects and lines 270-285 are not run, so nothing
\* is emitted
createRejected(em, sid) == em

\* lines 505-507: docker run failed, createContainer throws and
\* createSession rejects
CreateFail(c) ==
    /\ calls[c].op = "create"
    /\ emitted' = createRejected(emitted, calls[c].sid)
    /\ lastReply' = CreateEnded(calls[c].sid, "ProvisioningFailure",
                                calls[c].attempts)
    /\ calls' = Free(calls, c)
    /\ UNCHANGED <<now, usedRand, nextContainer, sessions, objs, containers,
                   batches, timerActive, errorListener, sweepsLeft, opsLeft,
                   stopCount, removeCount, destroyedOk, destroyFailed,
                   lastLateCall, lastSweep, lastShutdown>>
    /\ UNCHANGED <<files, abandoned, lastExec, lastFile>>
    /\ UNCHANGED listed

(***************************************************************************)
(* The loops of cleanupInactiveSessions (599-606) and destroy (253-259)    *)
(***************************************************************************)
BatchOperation(kind) == IF kind = "cleanup" THEN "cleanup" ELSE Undef

SweepSummary(bt, reg, aborted) ==
    [kind |-> "cleanup",
     selected |-> Keys(bt.toClean),
     attempted |-> bt.attempted,
     failed |-> bt.failed,
     removeFailed |-> bt.removeFailed,
     remaining |-> Keys(bt.toClean) \cap Keys(reg),
     aborted |-> aborted]

\* How a destroy() of the manager ended: it returned, or it threw out of
\* the catch block of line 257; the sessions whose docker rm failed; and
\* the number of createSession calls made before destroy() was called.
ShutdownEnded(bt, aborted) ==
    [op |-> "destroy", outcome |-> IF aborted THEN "threw" ELSE "returned",
     removeFailed |-> bt.removeFailed, draws |-> bt.draws]

\* The loop ends, normally or by an exception leaving its catch block.
BatchEnd(b, bt, reg, aborted) ==
    /\ batches' = [batches EXCEPT ![b] = NoBatch]
    /\ lastSweep' = IF bt.kind = "cleanup"
                    THEN SweepSummary(bt, reg, aborted)
                    ELSE lastSweep
    /\ lastShutdown' = IF bt.kind = "destroy"
                       THEN ShutdownEnded(bt, aborted)
                       ELSE lastShutdown

\* destroySession(sid) up to its first await: lines 292-299; idle is the
\* time since the session's last activity when the call is made
DestroyCall(sid, parent) ==
    [op |-> "destroy", sid |-> sid, pc |-> "stop", parent |-> parent,
     stopFailed |-> FALSE, idle |-> now - objs[sid].lastActivityAt]

\* The loop of batch b runs from index i of toClean, with registry reg and
\* events em, until a destroySession call awaits the provider in slot c or
\* the loop ends.  destroySession throws at once for an id that is not in
\* the registry; the catch block emits 'error' and the loop goes on.
BatchRun(b, bt, i, reg, em, cs, c) ==
    LET n == Len(bt.toClean)
        found == { j \in i..n : bt.toClean[j] \in Keys(reg) }
        j == IF found = {} THEN n + 1 ELSE Lowest(found)
        skipped == { bt.toClean[m] : m \in i..(j - 1) }
        errs == { Event("error", sid, BatchOperation(bt.kind)) : sid \in skipped }
    IN IF skipped # {} /\ emitErrorThrows
       THEN /\ BatchEnd(b, [bt EXCEPT !.attempted = @ \cup {bt.toClean[i]},
                                      !.failed = @ \cup {bt.toClean[i]}],
                        reg, TRUE)
            /\ calls' = cs
            /\ emitted' = em
            /\ UNCHANGED stopCount
       ELSE IF j > n
       THEN /\ BatchEnd(b, [bt EXCEPT !.attempted = @ \cup skipped,
                                      !.failed = @ \cup skipped],
                        reg, FALSE)
            /\ calls' = cs
            /\ emitted' = EmitAll(em, errs)
            /\ UNCHANGED stopCount
       ELSE /\ batches' = [batches EXCEPT ![b] =
                  [bt EXCEPT !.idx = j,
                             !.attempted = @ \cup skipped \cup {bt.toClean[j]},
                             !.failed = @ \cup skipped]]
            /\ calls' = [cs EXCEPT ![c] = DestroyCall(bt.toClean[j], b)]
            /\ stopCount' = Bump(stopCount, objs[bt.toClean[j]].containerId)
            /\ emitted' = EmitAll(em, errs)
            /\ UNCHANGED <<lastSweep, lastShutdown>>

\* destroySession of call c has settled with outcome o ("ok" or "failed"),
\* leaving registry reg and events em; its awaiting loop, if any, resumes.
DestroySettled(c, o, reg, em) ==
    LET sid == calls[c].sid
        b == calls[c].parent
    IN IF b = 0
       THEN /\ calls' = Free(calls, c)
            /\ emitted' = em
            /\ UNCHANGED <<batches, stopCount, lastSweep, lastShutdown>>
       ELSE LET bt == batches[b] IN
            IF o = "ok"
            THEN BatchRun(b, bt, bt.idx + 1, reg,
                          IF bt.kind = "cleanup"
                          THEN emit(em, Event("session:cleanup", sid, Undef))
                          ELSE em,
                          Free(calls, c), c)
            ELSE LET bf == [bt EXCEPT !.failed = @ \cup {sid},
                                      !.removeFailed = @ \cup {sid}]
                 IN IF emitErrorThrows
                    THEN /\ BatchEnd(b, bf, reg, TRUE)
                         /\ calls' = Free(calls, c)
                         /\ emitted' = em
                         /\ UNCHANGED stopCount
                    ELSE BatchRun(b, bf, bt.idx + 1, reg,
                                  emitError(em, Event("error", sid,
                                                      BatchOperation(bt.kind))),
                                  Free(calls, c), c)

(***************************************************************************)
(* destroySession                                                          *)
(***************************************************************************)
\* lines 292-299, called by a caller: the lookup, then docker stop is issued
DestroyStart(sid) ==
    /\ opsLeft > 0
    /\ opsLeft' = opsLeft - 1
    /\ IF sid \notin Keys(sessions)
       THEN /\ NoteLate("destroySession", sid, "SessionNotFound")
            /\ UNCHANGED <<calls, stopCount>>
       ELSE /\ FreeCall(calls) # {}
            /\ calls' = [calls EXCEPT ![Lowest(FreeCall(calls))] =
                            DestroyCall(sid, 0)]
            /\ stopCount' = Bump(stopCount, objs[sid].containerId)
            /\ NoteLate("destroySession", sid, "ok")
    /\ UNCHANGED <<now, usedRand, nextContainer, sessions, objs, containers,
                   batches, timerActive, errorListener, sweepsLeft, emitted, removeCount,
                   destroyedOk, destroyFailed, lastSweep, lastShutdown>>
    /\ UNCHANGED <<files, abandoned, lastExec, lastFile>>
    /\ UNCHANGED <<lastReply, listed>>

\* How a destroySession call that had found its session ended: whether
\* docker stop failed, whether docker rm was invoked and succeeded, and the
\* outcome for the caller ("ok", "StopFailure" or "RemoveFailure").
DestroyEnded(sid, stopFailed, removeInvoked, removeOk, outcome) ==
    [op |-> "destroySession", sid |-> sid, stopFailed |-> stopFailed,
     removeInvoked |-> removeInvoked, removeOk |-> removeOk,
     outcome |-> outcome]

\* The catch block of stopContainer with `throw error` for the warning.
\* StopFailureTolerated must not survive this change.
stopContainerCatchRethrow(ok) == IF ok THEN "resolve" ELSE "throw"

\* lines 511-516: a failure of docker stop is caught and logged, and
\* stopContainer resolves
stopContainerCatch(ok) == "resolve"

\* lines 510-517 and 300: docker stop answered; stopContainer swallows a
\* failure, and docker rm is issued.  (Had stopContainer thrown, the catch
\* block of lines 305-308 would have run.)
StopDone(c, ok) ==
    /\ calls[c].op = "destroy"
    /\ calls[c].pc = "stop"
    /\ IF stopContainerCatch(ok) = "resolve"
       THEN /\ calls' = [calls EXCEPT ![c].pc = "remove",
                                      ![c].stopFailed = ~ok]
            /\ removeCount' = Bump(removeCount,
                                   objs[calls[c].sid].containerId)
            /\ UNCHANGED <<batches, emitted, stopCount, destroyFailed,
                           lastSweep, lastShutdown, lastReply>>
       ELSE /\ destroyFailed' = destroyFailed \cup {calls[c].sid}
            /\ lastReply' = DestroyEnded(calls[c].sid, TRUE, FALSE, FALSE,
                                         "StopFailure")
            /\ DestroySettled(c, "failed", sessions,
                              emitError(emitted,
                                        Event("error", calls[c].sid,
                                              "destroy")))
            /\ UNCHANGED removeCount
    /\ UNCHANGED <<now, usedRand, nextContainer, sessions, objs, containers,
                   timerActive, errorListener, sweepsLeft, opsLeft,
                   destroyedOk, lastLateCall>>
    /\ UNCHANGED <<files, abandoned, lastExec, lastFile>>
    /\ UNCHANGED listed

\* destroySessionCommit with lines 302-303 left out: the call resolves
\* without touching the session or the registry.  DestroyedStaysUnusable
\* must not survive this change.
destroySessionCommitSkipped(sid) ==
    UNCHANGED <<objs, sessions>>

\* lines 302-303: the session is marked inactive and leaves the registry
destroySessionCommit(sid) ==
    /\ objs' = [objs EXCEPT ![sid].isActive = FALSE]
    /\ sessions' = MapDelete(sessions, sid)

\* lines 300-304: docker rm succeeded
RemoveOk(c) ==
    /\ calls[c].op = "destroy"
    /\ calls[c].pc = "remove"
    /\ LET sid == calls[c].sid IN
       /\ containers' = containers \ {objs[sid].containerId}
       /\ destroySessionCommit(sid)
       /\ destroyedOk' = destroyedOk \cup {sid}
       /\ DestroySettled(c, "ok", sessions',
                         emit(emitted, Event("session:destroyed", sid, Undef)))
       /\ abandoned' = abandoned \ {sid}
       /\ files' = [k \in DOMAIN files \ {sid} |-> files[k]]
       /\ lastReply' = DestroyEnded(sid, calls[c].stopFailed, TRUE, TRUE, "ok")
    /\ UNCHANGED <<now, usedRand, nextContainer, timerActive, errorListener, sweepsLeft,
                   opsLeft, removeCount, destroyFailed, lastLateCall>>
    /\ UNCHANGED <<lastExec, lastFile>>
    /\ UNCHANGED listed

\* lines 519-525 and 305-308: docker rm failed; the catch block emits
\* 'error' and the call rejects
RemoveFail(c) ==
    /\ calls[c].op = "destroy"
    /\ calls[c].pc = "remove"
    /\ LET sid == calls[c].sid IN
       /\ destroyFailed' = destroyFailed \cup {sid}
       /\ DestroySettled(c, "failed", sessions,
                         emitError(emitted, Event("error", sid, "destroy")))
       /\ lastReply' = DestroyEnded(sid, calls[c].stopFailed, TRUE, FALSE,
                                    "RemoveFailure")
    /\ UNCHANGED <<now, usedRand, nextContainer, sessions, objs, containers,
                   timerActive, errorListener, sweepsLeft, opsLeft, removeCount,
                   destroyedOk, lastLateCall>>
    /\ UNCHANGED <<files, abandoned, lastExec, lastFile>>
    /\ UNCHANGED listed

(***************************************************************************)
(* The reaper (237-241, 588-607) and the manager's destroy (246-260)       *)
(***************************************************************************)
sessionAge(sid) == now - objs[sid].lastActivityAt

\* isExpired with >= for >: the comparison includes the threshold.
\* SweepSparesRecentSessions must not survive this change.
isExpiredInclusive(age) == age >= maxSessionAge

\* line 594
isExpired(age) == age > maxSessionAge

\* lines 589-597: the ids selected by the scan, in registry order
sessionsToClean == SelectSeq(sessions, LAMBDA sid : isExpired(sessionAge(sid)))

NewBatch(kind, ids) ==
    [kind |-> kind, toClean |-> ids, idx |-> 0,
     scanIdle |-> [sid \in Keys(sessions) |-> sessionAge(sid)],
     scanBusy |-> { sid \in Keys(ids) : Executing(sid) # {} },
     attempted |-> {}, failed |-> {}, removeFailed |-> {},
     draws |-> usedRand]

\* The interval fires: cleanupInactiveSessions scans the registry and starts
\* destroying the first selected session.
ReaperTick ==
    /\ timerActive
    /\ sessionsToClean # <<>>
    /\ sweepsLeft > 0
    /\ sweepsLeft' = sweepsLeft - 1
    /\ FreeBatch # {}
    /\ FreeCall(calls) # {}
    /\ BatchRun(Lowest(FreeBatch), NewBatch("cleanup", sessionsToClean), 1,
                sessions, emitted, calls, Lowest(FreeCall(calls)))
    /\ UNCHANGED <<now, usedRand, nextContainer, sessions, objs, containers,
                   timerActive, errorListener, opsLeft, removeCount,
                   destroyedOk, destroyFailed, lastLateCall>>
    /\ UNCHANGED <<files, abandoned, lastExec, lastFile>>
    /\ UNCHANGED <<lastReply, listed>>

\* The interval fires and the scan selects nothing: the sweep returns.
ReaperIdleTick ==
    /\ timerActive
    /\ sessionsToClean = <<>>
    /\ UNCHANGED vars

\* SandboxManager.destroy(): the interval is cleared and every registered
\* session is destroyed in turn.
ManagerDestroy ==
    /\ opsLeft > 0
    /\ opsLeft' = opsLeft - 1
    /\ timerActive' = FALSE
    /\ IF sessions = <<>>
       THEN /\ lastShutdown' = ShutdownEnded(NewBatch("destroy", sessions),
                                              FALSE)
            /\ UNCHANGED <<calls, batches, emitted, stopCount, lastSweep>>
       ELSE /\ FreeBatch # {}
            /\ FreeCall(calls) # {}
            /\ BatchRun(Lowest(FreeBatch), NewBatch("destroy", sessions), 1,
                        sessions, emitted, calls, Lowest(FreeCall(calls)))
    /\ UNCHANGED <<now, usedRand, nextContainer, sessions, objs, containers,
                   errorListener, sweepsLeft, removeCount, destroyedOk, destroyFailed,
                   lastLateCall>>
    /\ UNCHANGED <<files, abandoned, lastExec, lastFile>>
    /\ UNCHANGED <<lastReply, listed>>

(***************************************************************************)
(* executeCommand                                                          *)
(***************************************************************************)
\* The values caught at line 344.  A field that is absent (or null) is
\* Undef; `killed` absent is FALSE (only `=== true` is tested).
\* line 537: the timer rejects with new Error('Execution timeout exceeded')
TimerError ==
    [code |-> Undef, killed |-> FALSE, stderr |-> Undef,
     message |-> "Execution timeout exceeded"]

\* line 545: { ...error, stdout, stderr } for the error of child_process
\* exec.  The spread copies the enumerable properties code, killed, signal
\* and cmd; `message` of an Error is not enumerable and is lost.  exec was
\* given no timeout, so it never kills the child itself: killed is false.
\* The command exits with a status other than 0, or is ended by a signal
\* (code null) without having written to stderr.
ExecErrors ==
    { [code |-> "2", killed |-> FALSE, stderr |-> "err", message |-> Undef],
      [code |-> Undef, killed |-> FALSE, stderr |-> "", message |-> Undef] }

\* line 346
timedOut(error) == error.killed = TRUE \/ error.code = "ETIMEDOUT"

\* exitCode with `|| 1` left out: the code of the error is passed on as it
\* is.  ExitCodeTellsCompletion must not survive this change.
exitCodeRaw(error) == error.code

\* line 349
exitCode(error) == IF Truthy(error.code) THEN error.code ELSE "1"

\* line 351
stderr(error) ==
    IF Truthy(error.stderr) THEN error.stderr
    ELSE IF Truthy(error.message) THEN error.message
    ELSE "Unknown error"

\* lines 334-340: the result of a run that completed
completedResult == [exitCode |-> "0", stderr |-> "", timedOut |-> FALSE]

\* lines 348-354: the result built from a caught error
errorResult(error) ==
    [exitCode |-> exitCode(error), stderr |-> stderr(error),
     timedOut |-> timedOut(error)]

NoResult == [exitCode |-> Undef, stderr |-> Undef, timedOut |-> FALSE]

\* The catch block with `throw error` for `return result`.
\* ExecuteNeverThrows must not survive this change.
catchExecutionRethrow(error) == [kind |-> "throw", result |-> NoResult]

\* lines 344-358: the catch block returns the result it has built
catchExecution(error) == [kind |-> "return", result |-> errorResult(error)]

\* The catch block marking the session inactive.  TimeoutKeepsSession must
\* not survive this change.
catchSessionDeactivated(session) == [session EXCEPT !.isActive = FALSE]

\* lines 344-358: the catch block does not touch the session
catchSession(session) == session

\* How an executeCommand call on session sid ended: cause is the validation
\* error, "completed", "failed" (the run failed) or "timeout".
ExecEnded(sid, cause, prior, settled) ==
    [op |-> "executeCommand", sid |-> sid, cause |-> cause, prior |-> prior,
     kind |-> settled.kind, result |-> settled.result]

\* The cause of the last settled executeCommand call, if it was on sid.
PriorCause(sid) ==
    IF lastExec.op # "none" /\ lastExec.sid = sid THEN lastExec.cause
    ELSE "none"

\* The options argument of executeCommand: absent fields, or a working
\* directory and an environment.
ExecOptions ==
    { [cwd |-> Undef, env |-> Undef],
      [cwd |-> "/sandbox/work", env |-> "KEY=value"] }

\* line 534: docker exec ${containerId} bash -c '${command}'; options is
\* a parameter of executeInContainer that the command line does not use
execCmd(containerId, command, options) ==
    [program |-> "docker exec", container |-> containerId,
     shell |-> <<"bash", "-c", command>>]

\* The stamp written to every session of the manager.
\* SessionsAreIndependent must not survive this change.
execStampEvery(os, sid) ==
    [k \in DOMAIN os |-> [os[k] EXCEPT !.lastActivityAt = now]]

\* line 320: session.lastActivityAt = new Date()
execStamp(os, sid) == [os EXCEPT ![sid].lastActivityAt = now]

\* lines 319-331 and 533-542: validation, the activity stamp, then the
\* timer is armed and docker exec is issued
ExecStart(sid) ==
    /\ opsLeft > 0
    /\ opsLeft' = opsLeft - 1
    /\ NoteLate("executeCommand", sid, validateSession(sid))
    /\ IF validateSession(sid) # "ok"
       THEN /\ lastExec' = ExecEnded(sid, validateSession(sid), PriorCause(sid),
                                     [kind |-> "throw", result |-> NoResult])
            /\ UNCHANGED <<objs, calls>>
       ELSE /\ FreeCall(calls) # {}
            /\ objs' = execStamp(objs, sid)
            /\ \E options \in ExecOptions :
                 calls' = [calls EXCEPT ![Lowest(FreeCall(calls))] =
                            [op |-> "exec", sid |-> sid, pc |-> "exec",
                             parent |-> 0, start |-> now,
                             timeout |-> objs[sid].timeoutMs,
                             prior |-> PriorCause(sid),
                             options |-> options,
                             invocation |-> execCmd(objs[sid].containerId,
                                                    "cmd", options)]]
            /\ UNCHANGED lastExec
    /\ UNCHANGED <<now, usedRand, nextContainer, sessions, containers,
                   batches, timerActive, errorListener, sweepsLeft, emitted, stopCount,
                   removeCount, destroyedOk, destroyFailed, lastSweep, lastShutdown>>
    /\ UNCHANGED <<files, abandoned, lastFile>>
    /\ UNCHANGED <<lastReply, listed>>

\* The timer with no callback to fire: it never expires.
\* ExecuteReturnsByTimeout must not survive this change.
TimerExpiryNever(call) == MaxTime + 1

\* line 535: setTimeout(..., timeout) expires `timeout` after the call
TimerExpiry(call) == call.start + call.timeout

TimerDue(call) == now >= TimerExpiry(call)

\* lines 542-549 and 333-358: docker exec answered before the timer fired
ExecDone(c, ok) ==
    /\ calls[c].op = "exec"
    /\ emitted' = emit(emitted,
                       Event(IF ok THEN "execution:completed"
                                   ELSE "execution:error",
                             calls[c].sid, Undef))
    /\ IF ok
       THEN /\ lastExec' = ExecEnded(calls[c].sid, "completed", calls[c].prior,
                                     [kind |-> "return",
                                      result |-> completedResult])
            /\ UNCHANGED objs
       ELSE \E error \in ExecErrors :
            /\ lastExec' = ExecEnded(calls[c].sid, "failed", calls[c].prior,
                                     catchExecution(error))
            /\ objs' = [objs EXCEPT ![calls[c].sid] = catchSession(@)]
    /\ calls' = Free(calls, c)
    /\ UNCHANGED <<now, usedRand, nextContainer, sessions, containers,
                   batches, timerActive, errorListener, sweepsLeft, opsLeft, stopCount,
                   removeCount, destroyedOk, destroyFailed, lastLateCall,
                   lastSweep, lastShutdown>>
    /\ UNCHANGED <<files, abandoned, lastFile>>
    /\ UNCHANGED <<lastReply, listed>>

\* lines 535-540 and 344-358: the timer fired first and rejected the
\* promise; docker exec is left running (no kill is sent), and ends with
\* the container at the latest
ExecTimeout(c) ==
    /\ calls[c].op = "exec"
    /\ TimerDue(calls[c])
    /\ emitted' = emit(emitted, Event("execution:error", calls[c].sid, Undef))
    /\ lastExec' = ExecEnded(calls[c].sid, "timeout", calls[c].prior,
                             catchExecution(TimerError))
    /\ objs' = [objs EXCEPT ![calls[c].sid] = catchSession(@)]
    /\ abandoned' = IF objs[calls[c].sid].containerId \in containers
                    THEN abandoned \cup {calls[c].sid}
                    ELSE abandoned
    /\ calls' = Free(calls, c)
    /\ UNCHANGED <<now, usedRand, nextContainer, sessions, containers,
                   batches, timerActive, errorListener, sweepsLeft, opsLeft, stopCount,
                   removeCount, destroyedOk, destroyFailed, lastLateCall,
                   lastSweep, lastShutdown>>
    /\ UNCHANGED <<files, lastFile>>
    /\ UNCHANGED <<lastReply, listed>>

\* The late resolve taking executeCommand through lines 333-343 a second
\* time.  ExactlyOneOutcome must not survive this change.
lateSettleEmits(em, sid) == emit(em, Event("execution:completed", sid, Undef))

\* lines 544-548 after line 537 has run: resolve or reject of a promise
\* that is already rejected does nothing, the await of line 326 is not
\* resumed again
lateSettle(em, sid) == em

\* lines 542-549 after the timer has fired: the command ends, clearTimeout
\* and resolve/reject act on a timer and a promise that are already settled
AbandonedExit(sid) ==
    /\ sid \in abandoned
    /\ abandoned' = abandoned \ {sid}
    /\ emitted' = lateSettle(emitted, sid)
    /\ UNCHANGED <<now, usedRand, nextContainer, sessions, objs, containers,
                   calls, batches, timerActive, errorListener, opsLeft,
                   sweepsLeft, stopCount, removeCount, destroyedOk,
                   destroyFailed, lastLateCall, lastSweep, lastShutdown, files, lastExec,
                   lastFile, lastReply, listed>>

(***************************************************************************)
(* fileOperation                                                           *)
(***************************************************************************)
\* line 371: `/sandbox${operation.path}`, as segments
sandboxPath(path) == <<"sandbox">> \o path

\* The file a path names in the container: each ".." segment drops the
\* segment before it (at the root it drops nothing).
RECURSIVE Resolve(_, _)
Resolve(done, rest) ==
    IF rest = <<>> THEN done
    ELSE IF Head(rest) = ".."
    THEN Resolve(IF done = <<>> THEN <<>>
                 ELSE SubSeq(done, 1, Len(done) - 1), Tail(rest))
    ELSE Resolve(Append(done, Head(rest)), Tail(rest))

\* The path resolves to /sandbox or to a file below it.
InsideSandbox(p) ==
    LET r == Resolve(<<>>, p) IN r # <<>> /\ Head(r) = "sandbox"

\* The files of the container of session sid, by resolved path.  A file is
\* its bytes (a sequence of strings) and the content argument of the write
\* that produced them.
FsOf(sid) == IF sid \in DOMAIN files THEN files[sid] ELSE <<>>

FsRemove(fs, p) == [q \in DOMAIN fs \ {p} |-> fs[q]]

FsPut(fs, p, file) == [q \in DOMAIN fs \cup {p} |-> IF q = p THEN file ELSE fs[q]]

FilesWith(sid, fs) ==
    [k \in (DOMAIN files \ {sid}) \cup (IF DOMAIN fs = {} THEN {} ELSE {sid})
        |-> IF k = sid THEN fs ELSE files[k]]

\* A JavaScript string as the sequence of its pieces.
Str(s) == <<s>>

\* lines 563-564: cat > "path" << 'EOF' \n content \n EOF, run by bash -c.
\* The here-document is the lines up to the delimiter, each ended by a
\* newline: the content and the newline that precedes EOF.  (The contents
\* of FileOps hold no quote, no '$', no backquote, no backslash and no line
\* that reads EOF.)
hereDocument(content) == <<content, "\n">>

\* rmFlags without f: rm reports a file that does not exist.
\* DeleteIsIdempotent must not survive this change.
rmFlagsNoForce(recursive) == IF recursive THEN "-r" ELSE ""

\* line 572
rmFlags(recursive) == IF recursive THEN "-rf" ELSE "-f"

\* rm: a file that does not exist is an error unless f is among the flags
rmSucceeds(flags, fs, p) == p \in DOMAIN fs \/ flags \in {"-f", "-rf"}

RECURSIVE SeqOf(_)
SeqOf(S) ==
    IF S = {} THEN <<>>
    ELSE LET x == CHOOSE y \in S : TRUE IN <<x>> \o SeqOf(S \ {x})

\* The files at or below path dir.
Below(fs, dir) ==
    { f \in DOMAIN fs : Len(f) >= Len(dir) /\ SubSeq(f, 1, Len(dir)) = dir }

\* find "dirPath" -type f reports a path that does not exist; /sandbox
\* itself always exists (line 501).
findSucceeds(fs, dir) == dir = <<"sandbox">> \/ Below(fs, dir) # {}

\* line 578: the stdout of find, one line (a path) per file, each ended by
\* a newline
findStdout(fs, dir) == SeqOf(Below(fs, dir))

\* line 580: stdout.split('\n') on lines that each end with a newline gives
\* the lines and one empty piece after the last newline
split(lines) == Append(lines, <<>>)

\* filter with the predicate left out: every piece is kept.
\* ListNeverFails must not survive this change.
nonBlankAny(line) == TRUE

\* line 581: (line) => line.trim()
nonBlank(line) == line # <<>>

\* line 582: line.replace(/^\/sandbox/, '')
stripSandbox(line) ==
    IF line # <<>> /\ Head(line) = "sandbox" THEN Tail(line) ELSE line

\* lines 579-582: the files found below dirPath, '/sandbox' stripped
listing(fs, dir) ==
    LET kept == SelectSeq(split(findStdout(fs, dir)), nonBlank)
    IN [i \in 1..Len(kept) |-> stripSandbox(kept[i])]

\* line 378 left out: a write is dispatched whatever its content.
\* MissingContentRefused must not survive this change.
contentMissingIgnored(operation) == FALSE

\* line 378: !operation.content
contentMissing(operation) == ~Truthy(operation.content)

\* What docker exec does for the operation of call `call` on the files fs
\* when it runs (ran): the outcome of the command, the files it leaves, and
\* what it writes to stdout.  Outside /sandbox the container's root is
\* read-only and its content is the image's: the command succeeds or fails
\* (ran) and the files of /sandbox stay.
ContainerFileOp(call, fs, ran) ==
    LET fop == call.arg
        p == Resolve(<<>>, call.path)
        none == [res |-> "error", fs |-> fs, value |-> <<>>, found |-> <<>>]
    IN IF ~ran THEN none
       ELSE IF ~InsideSandbox(call.path)
       THEN [none EXCEPT !.res = "ok"]
       ELSE IF fop.type = "read"
       THEN IF p \in DOMAIN fs
            THEN [none EXCEPT !.res = "ok", !.value = fs[p].bytes]
            ELSE none
       ELSE IF fop.type = "write"
       THEN [none EXCEPT !.res = "ok",
                         !.fs = FsPut(fs, p,
                                      [bytes |-> hereDocument(fop.content),
                                       wrote |-> fop.content])]
       ELSE IF fop.type = "delete"
       THEN IF rmSucceeds(rmFlags(fop.recursive), fs, p)
            THEN [none EXCEPT !.res = "ok", !.fs = FsRemove(fs, p)]
            ELSE none
       ELSE IF findSucceeds(fs, p)
       THEN [none EXCEPT !.res = "ok", !.found = listing(fs, p)]
       ELSE none

\* The last settled fileOperation, if it was on the same session and path.
PriorFile(sid, path) ==
    IF lastFile.op # "none" /\ lastFile.sid = sid /\ lastFile.path = path
    THEN <<lastFile.type, lastFile.res>>
    ELSE <<"none", "none">>

\* How a fileOperation call that passed validation ended: res is "ok",
\* "MissingContent" or "error" (the provider's command failed).
FileEnded(sid, fop, dispatched, ran, res, value, found, before, after) ==
    LET p == Resolve(<<>>, sandboxPath(fop.path)) IN
    [op |-> "fileOperation", sid |-> sid, type |-> fop.type,
     path |-> fop.path, content |-> fop.content, dispatched |-> dispatched,
     ran |-> ran, res |-> res, value |-> value, found |-> found,
     wrote |-> IF p \in DOMAIN before THEN before[p].wrote ELSE Undef,
     existed |-> p \in DOMAIN before, exists |-> p \in DOMAIN after,
     below |-> Cardinality(Below(before, p)),
     prev |-> PriorFile(sid, fop.path)]

\* line 369 left out: fileOperation leaves lastActivityAt as it was.
\* FileStampsActivity must not survive this change.
fileStampSkipped(session) == session

\* line 369: session.lastActivityAt = new Date()
fileStamp(session) == [session EXCEPT !.lastActivityAt = now]

\* lines 368-398: validation, the activity stamp, then the provider call;
\* a write without content throws inside the try block
FileStart(sid, fop) ==
    /\ opsLeft > 0
    /\ opsLeft' = opsLeft - 1
    /\ NoteLate("fileOperation", sid, validateSession(sid))
    /\ IF validateSession(sid) # "ok"
       THEN UNCHANGED <<objs, calls, emitted, lastFile>>
       ELSE /\ objs' = [objs EXCEPT ![sid] = fileStamp(@)]
            /\ IF fop.type = "write" /\ contentMissing(fop)
               THEN /\ emitted' = emit(emitted,
                                       Event("file-operation:error", sid,
                                             fop.type))
                    /\ lastFile' = FileEnded(sid, fop, FALSE, FALSE,
                                             "MissingContent", <<>>, <<>>,
                                             FsOf(sid), FsOf(sid))
                    /\ UNCHANGED calls
               ELSE /\ FreeCall(calls) # {}
                    /\ calls' = [calls EXCEPT ![Lowest(FreeCall(calls))] =
                                    [op |-> "file", sid |-> sid, pc |-> "file",
                                     parent |-> 0, arg |-> fop,
                                     path |-> sandboxPath(fop.path),
                                     start |-> now]]
                    /\ UNCHANGED <<emitted, lastFile>>
    /\ UNCHANGED <<now, usedRand, nextContainer, sessions, containers,
                   batches, timerActive, errorListener, sweepsLeft, stopCount,
                   removeCount, destroyedOk, destroyFailed, lastSweep, lastShutdown>>
    /\ UNCHANGED <<files, abandoned, lastExec>>
    /\ UNCHANGED <<lastReply, listed>>

\* lines 374-402 and 553-586: docker exec ended (ok: it ran the command in
\* the container); listFilesInContainer turns a failure into an empty list,
\* the other failures are emitted and rethrown
FileDone(c, ok) ==
    /\ calls[c].op = "file"
    /\ LET sid == calls[c].sid
           fop == calls[c].arg
           ran == ok /\ objs[sid].containerId \in containers
           done == ContainerFileOp(calls[c], FsOf(sid), ran)
           res == IF fop.type = "list" THEN "ok" ELSE done.res
       IN /\ files' = FilesWith(sid, done.fs)
          /\ lastFile' = FileEnded(sid, fop, TRUE, ran, res, done.value,
                                   done.found, FsOf(sid), done.fs)
          /\ emitted' = IF res = "ok"
                        THEN emitted
                        ELSE emit(emitted, Event("file-operation:error",
                                                 sid, fop.type))
    /\ calls' = Free(calls, c)
    /\ UNCHANGED <<now, usedRand, nextContainer, sessions, objs, containers,
                   batches, timerActive, errorListener, sweepsLeft, opsLeft, stopCount,
                   removeCount, destroyedOk, destroyFailed, lastLateCall,
                   lastSweep, lastShutdown>>
    /\ UNCHANGED <<abandoned, lastExec>>
    /\ UNCHANGED <<lastReply, listed>>

(***************************************************************************)
(* getSessionHealth                                                        *)
(***************************************************************************)
\* getSessionHealth counting as activity, like executeCommand.
\* HealthLeavesSession must not survive this change.
healthSessionStamped(session) == [session EXCEPT !.lastActivityAt = now]

\* lines 409-433: the session is read (containerId, isActive, createdAt,
\* lastActivityAt) and no field of it is assigned
healthSession(session) == session

\* lines 409-414
HealthStart(sid) ==
    /\ opsLeft > 0
    /\ opsLeft' = opsLeft - 1
    /\ NoteLate("getSessionHealth", sid, validateSession(sid))
    /\ IF validateSession(sid) # "ok"
       THEN UNCHANGED <<objs, calls>>
       ELSE /\ FreeCall(calls) # {}
            /\ objs' = [objs EXCEPT ![sid] = healthSession(@)]
            /\ calls' = [calls EXCEPT ![Lowest(FreeCall(calls))] =
                            [op |-> "health", sid |-> sid, pc |-> "stats",
                             parent |-> 0]]
    /\ UNCHANGED <<now, usedRand, nextContainer, sessions, containers,
                   batches, timerActive, errorListener, sweepsLeft, emitted, stopCount,
                   removeCount, destroyedOk, destroyFailed, lastSweep, lastShutdown>>
    /\ UNCHANGED <<files, abandoned, lastExec, lastFile>>
    /\ UNCHANGED <<lastReply, listed>>

\* lines 418-426: the status built from the stats of the container
healthStatus(session) ==
    [kind |-> "return",
     status |-> [sessionId |-> session.sessionId,
                 isActive |-> session.isActive,
                 containerStatus |-> "running", error |-> Undef]]

\* The catch block with `throw error` for the degraded status.
\* HealthNeverFails must not survive this change.
healthCatchRethrow(session) ==
    [kind |-> "throw",
     status |-> [sessionId |-> Undef, isActive |-> FALSE,
                 containerStatus |-> Undef, error |-> Undef]]

\* lines 427-433: the degraded status of the catch block
healthCatch(session) ==
    [kind |-> "return",
     status |-> [sessionId |-> session.sessionId,
                 isActive |-> session.isActive,
                 containerStatus |-> Undef,
                 error |-> "Failed to retrieve health status"]]

\* How a getSessionHealth call that passed validation ended: whether docker
\* stats answered with statistics, what the session's isActive was then,
\* what the call returned or threw, and when.
HealthEnded(sid, ok, active, settled) ==
    [op |-> "getSessionHealth", sid |-> sid, providerOk |-> ok,
     active |-> active, kind |-> settled.kind, status |-> settled.status,
     at |-> now]

\* lines 416-433: docker stats answered (ok: with statistics that
\* JSON.parse accepts); either way a status is returned
HealthDone(c, ok) ==
    /\ calls[c].op = "health"
    /\ LET session == objs[calls[c].sid] IN
       lastReply' = HealthEnded(calls[c].sid, ok, session.isActive,
                                IF ok THEN healthStatus(session)
                                      ELSE healthCatch(session))
    /\ calls' = Free(calls, c)
    /\ UNCHANGED <<now, usedRand, nextContainer, sessions, objs, containers,
                   batches, timerActive, errorListener, sweepsLeft, opsLeft, emitted,
                   stopCount, removeCount, destroyedOk, destroyFailed,
                   lastLateCall, lastSweep, lastShutdown>>
    /\ UNCHANGED <<files, abandoned, lastExec, lastFile>>
    /\ UNCHANGED listed

(***************************************************************************)
(* updateSessionLimits                                                     *)
(***************************************************************************)
\* applyLimits without the three tests: every field of the argument is
\* assigned, present or not.  UpdateChangesOnlyGiven must not survive this
\* change.
applyLimitsAll(session, limits) ==
    [session EXCEPT !.memoryLimit = limits.memoryLimit,
                    !.cpuLimit = limits.cpuLimit,
                    !.timeoutMs = limits.timeoutMs]

\* lines 445-453
applyLimits(session, limits) ==
    [session EXCEPT
        !.memoryLimit = IF Truthy(limits.memoryLimit)
                        THEN limits.memoryLimit ELSE @,
        !.cpuLimit = IF Truthy(limits.cpuLimit) THEN limits.cpuLimit ELSE @,
        !.timeoutMs = IF TruthyNum(limits.timeoutMs)
                      THEN limits.timeoutMs ELSE @]

\* How an updateSessionLimits call that passed validation ended: the
\* session at the call, after lines 445-453, and when the call settled.
UpdateEnded(sid, limits, before, mutated, settled, outcome) ==
    [op |-> "updateSessionLimits", sid |-> sid, limits |-> limits,
     before |-> before, mutated |-> mutated, settled |-> settled,
     outcome |-> outcome]

\* lines 443-460 (and 466 when no memory limit is given)
UpdateStart(sid, limits) ==
    /\ opsLeft > 0
    /\ opsLeft' = opsLeft - 1
    /\ NoteLate("updateSessionLimits", sid, validateSession(sid))
    /\ IF validateSession(sid) # "ok"
       THEN UNCHANGED <<objs, calls, emitted, lastReply>>
       ELSE /\ objs' = [objs EXCEPT ![sid] = applyLimits(@, limits)]
            /\ IF Truthy(limits.memoryLimit)
               THEN /\ FreeCall(calls) # {}
                    /\ calls' = [calls EXCEPT ![Lowest(FreeCall(calls))] =
                                    [op |-> "update", sid |-> sid,
                                     pc |-> "update", parent |-> 0,
                                     arg |-> limits, before |-> objs[sid],
                                     mutated |-> objs'[sid]]]
                    /\ UNCHANGED <<emitted, lastReply>>
               ELSE /\ emitted' = emit(emitted,
                                       Event("session:limits-updated", sid,
                                             Undef))
                    /\ lastReply' = UpdateEnded(sid, limits, objs[sid],
                                                objs'[sid], objs'[sid], "ok")
                    /\ UNCHANGED calls
    /\ UNCHANGED <<now, usedRand, nextContainer, sessions, containers,
                   batches, timerActive, errorListener, sweepsLeft, stopCount,
                   removeCount, destroyedOk, destroyFailed, lastSweep, lastShutdown>>
    /\ UNCHANGED <<files, abandoned, lastExec, lastFile>>
    /\ UNCHANGED listed

\* lines 457-466: docker update answered; a failure is rethrown
UpdateDone(c, ok) ==
    /\ calls[c].op = "update"
    /\ emitted' = IF ok
                  THEN emit(emitted, Event("session:limits-updated",
                                           calls[c].sid, Undef))
                  ELSE emitted
    /\ lastReply' = UpdateEnded(calls[c].sid, calls[c].arg, calls[c].before,
                                calls[c].mutated, objs[calls[c].sid],
                                IF ok THEN "ok" ELSE "LimitUpdateFailure")
    /\ calls' = Free(calls, c)
    /\ UNCHANGED <<now, usedRand, nextContainer, sessions, objs, containers,
                   batches, timerActive, errorListener, sweepsLeft, opsLeft, stopCount,
                   removeCount, destroyedOk, destroyFailed, lastLateCall,
                   lastSweep, lastShutdown>>
    /\ UNCHANGED <<files, abandoned, lastExec, lastFile>>
    /\ UNCHANGED listed

(***************************************************************************)
(* listSessions                                                            *)
(***************************************************************************)
\* line 473: Array.from(this.sessions.values()).filter((s) => s.isActive),
\* a new array of the session objects (here: of their ids)
listSessionsArray == SelectSeq(sessions, LAMBDA sid : objs[sid].isActive)

\* The caller looking at a view of the registry instead of an array of
\* its own.  ListIsSnapshot must not survive this change.
MembersLive(l) == listSessionsArray

\* The members of the array that a listSessions call returned, as the
\* caller finds them later
Members(l) == l.array

\* lines 472-474; n tells the calls apart
ListSessions ==
    /\ opsLeft > 0
    /\ opsLeft' = opsLeft - 1
    /\ listed' = [op |-> "listSessions", array |-> listSessionsArray,
                  active |-> listSessions, n |-> opsLeft]
    /\ UNCHANGED <<now, usedRand, nextContainer, sessions, objs, containers,
                   calls, batches, timerActive, errorListener, sweepsLeft,
                   emitted, stopCount, removeCount, destroyedOk,
                   destroyFailed, lastLateCall, lastSweep, lastShutdown, files, abandoned,
                   lastExec, lastFile, lastReply>>

(***************************************************************************)
(* Listeners                                                               *)
(***************************************************************************)
\* manager.on('error', listener), as in the documented event handling
OnError ==
    /\ ~errorListener
    /\ errorListener' = TRUE
    /\ UNCHANGED <<now, usedRand, nextContainer, sessions, objs, containers,
                   calls, batches, timerActive, opsLeft, sweepsLeft, emitted,
                   stopCount, removeCount, destroyedOk, destroyFailed,
                   lastLateCall, lastSweep, lastShutdown>>
    /\ UNCHANGED <<files, abandoned, lastExec, lastFile>>
    /\ UNCHANGED <<lastReply, listed>>

(***************************************************************************)
(* Time                                                                    *)
(***************************************************************************)
\* The clock advances to the next instant; a timer that is due before that
\* instant fires first.
Tick ==
    /\ \E u \in Instants : u > now
    /\ \A c \in CallIds : calls[c].op = "exec" =>
           TimerExpiry(calls[c]) >= NextInstant(now)
    /\ now' = NextInstant(now)
    /\ UNCHANGED <<usedRand, nextContainer, sessions, objs, containers, calls,
                   batches, timerActive, errorListener, sweepsLeft, opsLeft, emitted,
                   stopCount, removeCount, destroyedOk, destroyFailed,
                   lastLateCall, lastSweep, lastShutdown>>
    /\ UNCHANGED <<files, abandoned, lastExec, lastFile>>
    /\ UNCHANGED <<lastReply, listed>>

Init ==
    /\ now = 0
    /\ usedRand = 0
    /\ nextContainer = 0
    /\ sessions = <<>>
    /\ objs = <<>>
    /\ containers = {}
    /\ calls = [c \in CallIds |-> NoCall]
    /\ batches = [b \in BatchIds |-> NoBatch]
    /\ timerActive = TRUE
    /\ errorListener = FALSE
    /\ opsLeft = MaxOps
    /\ sweepsLeft = MaxSweeps
    /\ emitted = <<>>
    /\ stopCount = <<>>
    /\ removeCount = <<>>
    /\ destroyedOk = {}
    /\ destroyFailed = {}
    /\ lastLateCall = NoCall
    /\ lastSweep = NoBatch
    /\ lastShutdown = NoCall
    /\ files = <<>>
    /\ abandoned = {}
    /\ lastExec = NoCall
    /\ lastFile = NoCall
    /\ lastReply = NoCall
    /\ listed = NoCall

Next ==
    \/ CreateStart
    \/ \E c \in CallIds : CreateOk(c)
    \/ \E c \in CallIds : CreateFail(c)
    \/ \E sid \in Created : DestroyStart(sid)
    \/ \E c \in CallIds, ok \in BOOLEAN : StopDone(c, ok)
    \/ \E c \in CallIds : RemoveOk(c)
    \/ \E c \in CallIds : RemoveFail(c)
    \/ ReaperTick
    \/ ReaperIdleTick
    \/ ManagerDestroy
    \/ \E sid \in Created : ExecStart(sid)
    \/ \E c \in CallIds, ok \in BOOLEAN : ExecDone(c, ok)
    \/ \E c \in CallIds : ExecTimeout(c)
    \/ \E sid \in Created : AbandonedExit(sid)
    \/ \E sid \in Created, fop \in FileOps : FileStart(sid, fop)
    \/ \E c \in CallIds, ok \in BOOLEAN : FileDone(c, ok)
    \/ \E sid \in Created : HealthStart(sid)
    \/ \E c \in CallIds, ok \in BOOLEAN : HealthDone(c, ok)
    \/ \E sid \in Created, limits \in LimitsArgs : UpdateStart(sid, limits)
    \/ \E c \in CallIds, ok \in BOOLEAN : UpdateDone(c, ok)
    \/ ListSessions
    \/ OnError
    \/ Tick

Spec == Init /\ [][Next]_vars

\* createSession and destroySession alone, with the draws of Math.random
\* free to repeat.
NextIds ==
    \/ \E r \in Draws : CreateStartDraw(r)
    \/ \E c \in CallIds : CreateOk(c)
    \/ \E c \in CallIds : CreateFail(c)
    \/ \E sid \in Created : DestroyStart(sid)
    \/ \E c \in CallIds, ok \in BOOLEAN : StopDone(c, ok)
    \/ \E c \in CallIds : RemoveOk(c)
    \/ \E c \in CallIds : RemoveFail(c)
    \/ Tick

SpecIds == Init /\ [][NextIds]_vars

(***************************************************************************)
(* Properties                                                              *)
(***************************************************************************)
ValidationErrors == {"SessionNotFound", "SessionInactive"}

GuardedOps == {"executeCommand", "fileOperation", "getSessionHealth",
               "updateSessionLimits"}

\* C1: once a destroySession call on a session has resolved, every later
\* executeCommand, fileOperation, getSessionHealth, updateSessionLimits or
\* destroySession on that id fails with session-not-found or
\* session-inactive, and the id is never listed by listSessions again.
DestroyedStaysUnusable ==
    /\ destroyedOk \cap listSessions = {}
    /\ (lastLateCall.op # "none" /\ lastLateCall.ctx = "destroyed")
          => lastLateCall.res \in ValidationErrors

\* C1 witness: an executeCommand was issued on a destroyed session and was
\* refused.
DestroyedStaysUnusableWitness ==
    /\ lastLateCall.op = "executeCommand"
    /\ lastLateCall.ctx = "destroyed"
    /\ lastLateCall.res = "SessionNotFound"
    /\ lastLateCall.sid \in destroyedOk

\* C2: whenever a destroySession call on a registered session has ended,
\* with success or with a surfaced provider failure, the session id is no
\* longer in the registry.
DestroyAlwaysRemovesEntry ==
    (destroyedOk \cup destroyFailed) \cap Keys(sessions) = {}

\* C3: while docker stop or docker rm of a destroySession call is in
\* progress for a session, that session's isActive is false.
InactiveDuringTeardown ==
    \A c \in CallIds :
        calls[c].op = "destroy" => ~objs[calls[c].sid].isActive

\* C4: an executeCommand, fileOperation, getSessionHealth or
\* updateSessionLimits call issued while a destroySession call for the same
\* session is awaiting the provider does not pass validation.
DestroyWinsRaces ==
    (lastLateCall.op \in GuardedOps /\ lastLateCall.ctx = "destroying")
        => lastLateCall.res \in ValidationErrors

\* C5: docker stop and docker rm are each invoked at most once on the
\* container of a session.
ReleasedAtMostOnce ==
    /\ \A k \in DOMAIN stopCount : stopCount[k] <= 1
    /\ \A k \in DOMAIN removeCount : removeCount[k] <= 1

\* C6: at most one execution of cleanupInactiveSessions is in progress.
SweepsDoNotOverlap ==
    Cardinality({ b \in BatchIds : batches[b].kind = "cleanup" }) <= 1

\* C7: when a sweep has finished, every session it selected is out of the
\* registry, except those whose container removal failed in that sweep.
SweepDestroysExpired ==
    lastSweep.kind = "cleanup" =>
        (lastSweep.selected \ lastSweep.removeFailed) \cap lastSweep.remaining
            = {}

\* C8: a sweep calls destroySession (and so docker stop and docker rm) only
\* on sessions whose idle duration at its scan exceeded maxSessionAge; a
\* session idle for maxSessionAge or less at the scan is not in its list.
SweepSparesRecentSessions ==
    /\ \A b \in BatchIds :
          batches[b].kind = "cleanup" =>
              \A sid \in Keys(batches[b].toClean) :
                  batches[b].scanIdle[sid] > maxSessionAge
    /\ \A c \in CallIds :
          (calls[c].op = "destroy" /\ calls[c].parent # 0
             /\ batches[calls[c].parent].kind = "cleanup")
          => calls[c].sid \in Keys(batches[calls[c].parent].toClean)

\* C8 witness: a sweep is removing the container of an expired session
\* while a session that was idle for exactly maxSessionAge at the scan is
\* still registered and active.
SweepSparesRecentSessionsWitness ==
    \E c \in CallIds :
        /\ calls[c].op = "destroy"
        /\ calls[c].pc = "remove"
        /\ calls[c].parent # 0
        /\ batches[calls[c].parent].kind = "cleanup"
        /\ \E sid \in DOMAIN batches[calls[c].parent].scanIdle :
              /\ batches[calls[c].parent].scanIdle[sid] = maxSessionAge
              /\ sid \in listSessions
              /\ Destroying(sid) = {}

\* C9: when a sweep has finished, destroySession was attempted for every
\* session it selected, and every failure was emitted as an 'error' event
\* of the cleanup operation.
SweepIsolatesFailures ==
    lastSweep.kind = "cleanup" =>
        /\ lastSweep.attempted = lastSweep.selected
        /\ \A sid \in lastSweep.failed :
              Event("error", sid, "cleanup") \in DOMAIN emitted

\* C10: no sweep selects a session that has an executeCommand in flight at
\* the scan.
NoReapWhileExecuting ==
    \A b \in BatchIds : batches[b].kind = "cleanup" => batches[b].scanBusy = {}

\* C11: an executeCommand call ends by throwing exactly when validateSession
\* refused the session; a run that completed, failed or was timed out ends
\* with a returned ExecutionResult.
ExecuteNeverThrows ==
    lastExec.op # "none" =>
        (lastExec.kind = "throw" <=> lastExec.cause \in ValidationErrors)

\* C11 witness: the run of a command failed with exit status 2 and the call
\* returned a result carrying that status.
ExecuteNeverThrowsWitness ==
    /\ lastExec.op # "none"
    /\ lastExec.cause = "failed"
    /\ lastExec.kind = "return"
    /\ lastExec.result.exitCode = "2"

\* C12: the result returned when the timer expired before the run completed
\* has timedOut = true.
TimeoutReportsTimedOut ==
    (lastExec.op # "none" /\ lastExec.cause = "timeout")
        => lastExec.result.timedOut

\* C13: no command is still running in a session's container after the
\* executeCommand call that started it has returned its timeout result.
TimeoutKillsCommand == abandoned = {}

TimeoutKeepsSession ==
    /\ (lastExec.op # "none" /\ lastExec.cause = "timeout"
          /\ lastExec.sid \notin destroyedOk)
       => validateSession(lastExec.sid) = "ok"
    /\ (lastExec.op # "none" /\ lastExec.kind = "throw"
          /\ lastExec.prior = "timeout")
       => lastExec.sid \in destroyedOk

\* C15 witness: an executeCommand issued on a session after a timeout on
\* that session has passed validation and awaits the provider.
TimeoutKeepsSessionWitness ==
    \E c \in CallIds :
        /\ calls[c].op = "exec"
        /\ calls[c].prior = "timeout"
        /\ calls[c].sid \in listSessions

TraversalNeverReachesProvider ==
    \A c \in CallIds : calls[c].op = "file" => InsideSandbox(calls[c].path)

\* C18: a write that carries no content ends with the missing-content
\* error without the provider having been called, and the failure is
\* emitted as a file-operation:error event of the write.
MissingContentRefused ==
    (lastFile.op # "none" /\ lastFile.type = "write"
       /\ lastFile.content = Undef)
    => /\ lastFile.res = "MissingContent"
       /\ ~lastFile.dispatched
       /\ Event("file-operation:error", lastFile.sid, "write")
             \in DOMAIN emitted

\* C18 witness: a write without content on an active session was refused
\* and left the files of the session as they were.
MissingContentRefusedWitness ==
    /\ lastFile.op # "none"
    /\ lastFile.type = "write"
    /\ lastFile.content = Undef
    /\ lastFile.res = "MissingContent"
    /\ lastFile.sid \in listSessions

\* C19: a read that follows a write of the same path returns the content
\* that was written, and nothing else.
WriteReadRoundTrip ==
    (lastFile.op # "none" /\ lastFile.type = "read" /\ lastFile.res = "ok"
       /\ lastFile.wrote # Undef)
    => lastFile.value = Str(lastFile.wrote)

\* C20: a delete that the provider has run on a path of the sandbox
\* succeeds whether or not the path existed, and leaves the path absent.
DeleteIsIdempotent ==
    (lastFile.op # "none" /\ lastFile.type = "delete" /\ lastFile.ran
       /\ InsideSandbox(sandboxPath(lastFile.path)))
    => lastFile.res = "ok" /\ ~lastFile.exists

\* C20 witness: a second delete in a row of a path succeeded on the path
\* that the first one had left absent.
DeleteIsIdempotentWitness ==
    /\ lastFile.op # "none"
    /\ lastFile.type = "delete"
    /\ lastFile.ran
    /\ ~lastFile.existed
    /\ lastFile.res = "ok"
    /\ lastFile.prev = <<"delete", "ok">>

\* C21: a fileOperation of type list that passed validation returns a
\* sequence, which is empty when no file is at or below the directory
\* (it is empty, or does not exist), and no file-operation:error event of a
\* list is ever emitted.
ListNeverFails ==
    /\ (lastFile.op # "none" /\ lastFile.type = "list")
       => /\ lastFile.res = "ok"
          /\ (lastFile.below = 0
                /\ InsideSandbox(sandboxPath(lastFile.path)))
             => lastFile.found = <<>>
    /\ \A sid \in Created :
          Event("file-operation:error", sid, "list") \notin DOMAIN emitted

\* C21 witness: find ran on a directory that does not exist and the list
\* returned the empty sequence.
ListNeverFailsWitness ==
    /\ lastFile.op # "none"
    /\ lastFile.type = "list"
    /\ lastFile.path = MissingDir
    /\ lastFile.ran
    /\ lastFile.res = "ok"
    /\ lastFile.found = <<>>

\* C22: a step in which executeCommand, fileOperation, getSessionHealth or
\* updateSessionLimits is called with an id that is not in the registry, or
\* is there with isActive = false, ends the call with the validation error
\* and changes neither the registry, nor a session, nor the provider calls
\* in flight or made, nor the containers and their files, nor the events.
ValidationComesFirst ==
    [][(/\ lastLateCall' # lastLateCall
        /\ lastLateCall'.op \in GuardedOps
        /\ \/ lastLateCall'.sid \notin Keys(sessions)
           \/ ~objs[lastLateCall'.sid].isActive)
       => /\ lastLateCall'.res \in ValidationErrors
          /\ UNCHANGED <<sessions, objs, calls, batches, containers, files,
                         abandoned, emitted, stopCount, removeCount>>]_vars

\* C22 witness: an updateSessionLimits call on an id that had left the
\* registry was refused.
ValidationComesFirstWitness ==
    /\ lastLateCall.op = "updateSessionLimits"
    /\ lastLateCall.sid \notin Keys(sessions)
    /\ lastLateCall.res = "SessionNotFound"

\* The limit fields of a session.
Limits(session) ==
    <<session.memoryLimit, session.cpuLimit, session.timeoutMs>>

\* C23: when an updateSessionLimits call has failed because the provider
\* rejected the memory-limit change, the session's recorded limits are the
\* ones it had before the call.
LimitsRolledBack ==
    (lastReply.op = "updateSessionLimits"
       /\ lastReply.outcome = "LimitUpdateFailure")
    => Limits(lastReply.settled) = Limits(lastReply.before)

\* C24: lines 445-453 of updateSessionLimits assign the limit fields that
\* the argument provides and leave every other field of the session as it
\* was.
UpdateChangesOnlyGiven ==
    lastReply.op = "updateSessionLimits" =>
        LET b == lastReply.before
            m == lastReply.mutated
            l == lastReply.limits
        IN /\ \A f \in {"sessionId", "containerId", "createdAt",
                        "lastActivityAt", "isActive"} : m[f] = b[f]
           /\ l.memoryLimit = Undef => m.memoryLimit = b.memoryLimit
           /\ l.cpuLimit = Undef => m.cpuLimit = b.cpuLimit
           /\ l.timeoutMs = 0 => m.timeoutMs = b.timeoutMs

\* C24 witness: a call that gave a memory limit and no CPU limit and no
\* timeout has settled, the memory limit changed and the others kept.
UpdateChangesOnlyGivenWitness ==
    /\ lastReply.op = "updateSessionLimits"
    /\ lastReply.limits.cpuLimit = Undef
    /\ lastReply.limits.timeoutMs = 0
    /\ lastReply.mutated.memoryLimit = "256m"
    /\ lastReply.before.memoryLimit = baseMemoryLimit
    /\ lastReply.mutated.cpuLimit = baseCpuLimit
    /\ lastReply.mutated.timeoutMs = baseTimeoutMs

\* C25: a createSession call that failed because the provider could not
\* create a container made one docker run attempt, and its id is not in
\* the registry and no session:created event carries it.
ProvisioningFailureLeavesNothing ==
    (lastReply.op = "createSession"
       /\ lastReply.outcome = "ProvisioningFailure")
    => /\ lastReply.attempts = 1
       /\ lastReply.sid \notin Keys(sessions)
       /\ Event("session:created", lastReply.sid, Undef) \notin DOMAIN emitted

\* C25 witness: a createSession call failed while another session was
\* registered.
ProvisioningFailureLeavesNothingWitness ==
    /\ lastReply.op = "createSession"
    /\ lastReply.outcome = "ProvisioningFailure"
    /\ sessions # <<>>
    /\ lastReply.sid \notin Keys(sessions)

\* C26: a createSession call never returns an id that an earlier call
\* returned, and never sets a key that is in the registry.
SessionIdsNeverReissued ==
    (lastReply.op = "createSession" /\ lastReply.outcome = "ok")
    => ~lastReply.reissued /\ ~lastReply.overwrote

\* C27: no step changes the containerId of a session, and after every step
\* the sessions of the registry hold pairwise different containerIds.
HandlesFixedAndDistinct ==
    [][/\ \A sid \in DOMAIN objs :
             /\ sid \in DOMAIN objs'
             /\ objs'[sid].containerId = objs[sid].containerId
       /\ \A s1, s2 \in Keys(sessions') :
             s1 # s2 => objs'[s1].containerId # objs'[s2].containerId]_vars

\* C27 witness: two sessions are registered, with different handles, and
\* the limits of one have been updated since its creation.
HandlesFixedAndDistinctWitness ==
    /\ Len(sessions) = 2
    /\ objs[sessions[1]].containerId # objs[sessions[2]].containerId
    /\ \E sid \in Keys(sessions) : objs[sid].memoryLimit # baseMemoryLimit

HealthNeverFails ==
    lastReply.op = "getSessionHealth" =>
        /\ lastReply.kind = "return"
        /\ ~lastReply.providerOk =>
              /\ lastReply.status.sessionId = lastReply.sid
              /\ lastReply.status.isActive = lastReply.active
              /\ lastReply.status.error # Undef

\* C29 witness: docker stats failed for an active session and the call
\* returned the degraded status.
HealthNeverFailsWitness ==
    /\ lastReply.op = "getSessionHealth"
    /\ ~lastReply.providerOk
    /\ lastReply.kind = "return"
    /\ lastReply.status.isActive
    /\ lastReply.status.error = "Failed to retrieve health status"

\* C30: two executeCommand calls on a session that differ in options.cwd or
\* options.env issue different invocations of the provider.
OptionsReachProvider ==
    \A c1, c2 \in CallIds :
        (/\ calls[c1].op = "exec"
         /\ calls[c2].op = "exec"
         /\ calls[c1].sid = calls[c2].sid
         /\ calls[c1].options # calls[c2].options)
        => calls[c1].invocation # calls[c2].invocation

\* C40: a write whose content field is present, the empty string included,
\* is not refused as missing content.
WriteAcceptsAnyContent ==
    (lastFile.op # "none" /\ lastFile.type = "write"
       /\ lastFile.content # Undef)
    => lastFile.res # "MissingContent"

\* C34: every session of the registry has isActive = true, in every state
\* between two steps; validateSession never answers 'not active', and no
\* call was refused with it.
RegistryHoldsActiveOnly ==
    /\ \A sid \in Keys(sessions) : objs[sid].isActive
    /\ \A sid \in Created : validateSession(sid) # "SessionInactive"
    /\ lastLateCall.op # "none" => lastLateCall.res # "SessionInactive"
    /\ lastExec.op # "none" => lastExec.cause # "SessionInactive"

\* C34 witness: a session has been marked inactive by destroySession and a
\* later call on it was refused as not found, while another session is
\* registered.
RegistryHoldsActiveOnlyWitness ==
    /\ lastLateCall.op \in GuardedOps
    /\ ~objs[lastLateCall.sid].isActive
    /\ lastLateCall.res = "SessionNotFound"
    /\ sessions # <<>>

\* Every session other than A keeps its record and its place in, or out
\* of, the registry.
OtherSessionsKept(A) ==
    \A B \in DOMAIN objs \ {A} :
        /\ B \in DOMAIN objs'
        /\ objs'[B] = objs[B]
        /\ B \in Keys(sessions') <=> B \in Keys(sessions)

\* A step of an executeCommand, fileOperation, getSessionHealth,
\* updateSessionLimits or destroySession call on session A: its start, or
\* its resumption when the provider has answered.
OperationOn(A) ==
    \/ ExecStart(A)
    \/ \E fop \in FileOps : FileStart(A, fop)
    \/ HealthStart(A)
    \/ \E limits \in LimitsArgs : UpdateStart(A, limits)
    \/ DestroyStart(A)
    \/ \E c \in CallIds :
          /\ calls[c].op \in {"exec", "file", "health", "update", "destroy"}
          /\ calls[c].sid = A
          /\ \/ \E ok \in BOOLEAN :
                   \/ ExecDone(c, ok)
                   \/ FileDone(c, ok)
                   \/ HealthDone(c, ok)
                   \/ UpdateDone(c, ok)
                   \/ StopDone(c, ok)
             \/ ExecTimeout(c)
             \/ RemoveOk(c)
             \/ RemoveFail(c)

\* C31: a step of an operation on session A leaves the record of every
\* other session (handle, limits, timestamps, isActive) and its membership
\* of the registry unchanged.
SessionsAreIndependent ==
    [][\A A \in Created : OperationOn(A) => OtherSessionsKept(A)]_vars

\* C31 witness: of two sessions one has been used and destroyed, and the
\* other is registered with the record it was created with.
SessionsAreIndependentWitness ==
    \E A \in destroyedOk, B \in listSessions :
        /\ A # B
        /\ objs[A].lastActivityAt > objs[A].createdAt
        /\ objs[B].lastActivityAt = objs[B].createdAt
        /\ Limits(objs[B]) = <<baseMemoryLimit, baseCpuLimit, baseTimeoutMs>>

\* C32: the step that issues a fileOperation to the provider has set the
\* session's lastActivityAt to the time of the call, and when the call has
\* succeeded lastActivityAt is not earlier than that time.
FileStampsActivity ==
    [][\A c \in CallIds :
          /\ (calls[c].op # "file" /\ calls'[c].op = "file")
             => /\ calls'[c].start = now
                /\ objs'[calls'[c].sid].lastActivityAt = now
          /\ (calls[c].op = "file" /\ calls'[c].op # "file"
                 /\ lastFile'.res = "ok")
             => objs'[calls[c].sid].lastActivityAt >= calls[c].start]_vars

\* C32 witness: the only operation issued on a session since its creation
\* is a fileOperation that succeeded, and the session's lastActivityAt is
\* later than its creation.
FileStampsActivityWitness ==
    /\ opsLeft = MaxOps - 2
    /\ lastFile.op # "none"
    /\ lastFile.dispatched
    /\ lastFile.res = "ok"
    /\ \A c \in CallIds : calls[c].op = "none"
    /\ objs[lastFile.sid].lastActivityAt > objs[lastFile.sid].createdAt

\* C33: a sweep starts destroying a session only if the session is still
\* idle for more than maxSessionAge then: a session that was refreshed
\* between the scan and its turn in the loop is passed over.
SweepSparesRefreshed ==
    \A c \in CallIds :
        (/\ calls[c].op = "destroy"
         /\ calls[c].parent # 0
         /\ batches[calls[c].parent].kind = "cleanup")
        => calls[c].idle > maxSessionAge

\* C36: for every session the session:destroyed event has been emitted at
\* most once, and if it has been emitted the session:created event of that
\* session has been emitted too and the session is out of the registry.
DestroyedAnnouncedOnce ==
    \A sid \in Created :
        LET destroyed == Count(emitted, Event("session:destroyed", sid, Undef))
            created == Count(emitted, Event("session:created", sid, Undef))
        IN /\ destroyed <= 1
           /\ destroyed >= 1 => (created >= 1 /\ sid \notin Keys(sessions))

\* The two events that end an executeCommand call on session sid.
ExecutionEvents(sid) ==
    { Event("execution:completed", sid, Undef),
      Event("execution:error", sid, Undef) }

\* C37: the step in which an executeCommand call that passed validation
\* settles emits one execution:completed or execution:error event of its
\* session and returns a result; no other step emits such an event or
\* returns a result, the end of a command whose call has timed out
\* included.
ExactlyOneOutcome ==
    [][/\ \A c \in CallIds :
             (calls[c].op = "exec" /\ calls'[c].op # "exec")
             => /\ \E e \in ExecutionEvents(calls[c].sid) :
                      emitted' = emit(emitted, e)
                /\ lastExec'.sid = calls[c].sid
                /\ lastExec'.kind = "return"
       /\ (\A c \in CallIds : calls[c].op = "exec" => calls'[c].op = "exec")
          => /\ \A sid \in Created : \A e \in ExecutionEvents(sid) :
                   Count(emitted', e) = Count(emitted, e)
             /\ lastExec' = lastExec \/ lastExec'.kind = "throw"]_vars

\* C37 witness: a call timed out and emitted execution:error, and the
\* command it had started has since ended in the container without a
\* second event.
ExactlyOneOutcomeWitness ==
    /\ lastExec.op # "none"
    /\ lastExec.cause = "timeout"
    /\ lastExec.sid \notin abandoned
    /\ objs[lastExec.sid].containerId \in containers
    /\ Count(emitted, Event("execution:error", lastExec.sid, Undef)) = 1
    /\ Count(emitted, Event("execution:completed", lastExec.sid, Undef)) = 0

\* C39: the steps of a getSessionHealth call, its start and its return,
\* change no session and not the registry, whatever docker stats answered;
\* a registered session that was probed and is idle for more than
\* maxSessionAge is selected by the scan of the reaper.
HealthLeavesSession ==
    [][/\ \A c \in CallIds :
             ((calls[c].op = "health") # (calls'[c].op = "health"))
             => UNCHANGED <<objs, sessions>>
       /\ (/\ lastReply'.op = "getSessionHealth"
           /\ lastReply'.sid \in Keys(sessions')
           /\ now' - objs'[lastReply'.sid].lastActivityAt > maxSessionAge)
          => lastReply'.sid \in Keys(sessionsToClean)']_vars

\* C39 witness: a session was probed after its last activity, the probe
\* found the provider failing, and the session is among those the next
\* scan selects.
HealthLeavesSessionWitness ==
    /\ lastReply.op = "getSessionHealth"
    /\ ~lastReply.providerOk
    /\ lastReply.at > objs[lastReply.sid].lastActivityAt
    /\ lastReply.sid \in Keys(sessionsToClean)

\* C38: a destroySession call whose docker stop failed has invoked docker
\* rm all the same; when docker rm succeeded the call has resolved, the
\* session is out of the registry and session:destroyed has been emitted.
StopFailureTolerated ==
    (lastReply.op = "destroySession" /\ lastReply.stopFailed)
    => /\ lastReply.removeInvoked
       /\ lastReply.removeOk =>
             /\ lastReply.outcome = "ok"
             /\ lastReply.sid \in destroyedOk
             /\ lastReply.sid \notin Keys(sessions)
             /\ Event("session:destroyed", lastReply.sid, Undef)
                   \in DOMAIN emitted

\* C38 witness: docker stop failed, docker rm succeeded, and the call
\* resolved with no 'error' event of the destroy emitted.
StopFailureToleratedWitness ==
    /\ lastReply.op = "destroySession"
    /\ lastReply.stopFailed
    /\ lastReply.removeOk
    /\ lastReply.outcome = "ok"
    /\ errorListener
    /\ Event("error", lastReply.sid, "destroy") \notin DOMAIN emitted
    /\ Count(emitted, Event("session:destroyed", lastReply.sid, Undef)) = 1

\* C35: when destroy() has returned with no docker rm having failed, and
\* no createSession has been called since destroy() was called, the
\* registry is empty and the cleanup interval is cleared.
ShutdownLeavesNothing ==
    (/\ lastShutdown.op = "destroy"
     /\ lastShutdown.outcome = "returned"
     /\ lastShutdown.removeFailed = {}
     /\ usedRand = lastShutdown.draws)
    => sessions = <<>> /\ ~timerActive

====
